---- MODULE Spec2Model ----
(***************************************************************************)
(* Model of src/index.tsx: the upload handler (handleImageUpload and the   *)
(* FileReader / removal callbacks it installs) and the generation flow     *)
(* (handleGeneration, enhancePrompt, generateImages, setLoadingState).     *)
(*                                                                         *)
(* A JavaScript string is a sequence of one-character strings.  Fixed runs *)
(* of characters that no operation of the program looks into (the header   *)
(* of a data URL, base64 payloads) are single tokens of such a sequence.   *)
(* null and undefined are the one-token sequences NULL and UNDEFINED, so   *)
(* that every value a string variable can hold is comparable.              *)
(***************************************************************************)
EXTENDS Integers, Sequences, FiniteSets, TLC

\* ------------------------------------------------------------------ bounds
\* FileReaders that may be reading at the same time.
MaxPending == 2
\* Activations of handleGeneration that may be suspended at an await at once.
MaxFlows == 2

\* ------------------------------------------------------- JavaScript values
NULL == <<"<null>">>
UNDEFINED == <<"<undefined>">>

\* JavaScript truthiness of a string | null | undefined.
Truthy(v) == v # NULL /\ v # UNDEFINED /\ v # <<>>

IsWhiteSpace(c) == c \in {" ", "\t", "\n"}

RECURSIVE TrimStart(_)
TrimStart(s) ==
    IF s # <<>> /\ IsWhiteSpace(Head(s)) THEN TrimStart(Tail(s)) ELSE s

RECURSIVE TrimEnd(_)
TrimEnd(s) ==
    IF s # <<>> /\ IsWhiteSpace(s[Len(s)])
    THEN TrimEnd(SubSeq(s, 1, Len(s) - 1))
    ELSE s

\* String.prototype.trim
Trim(s) == TrimEnd(TrimStart(s))

Min(a, b) == IF a < b THEN a ELSE b

\* String.prototype.substring(from, to) for 0 <= from <= to
Substring(s, from, to) == SubSeq(s, from + 1, Min(to, Len(s)))

\* String.prototype.split(sep): the segments of s between occurrences of sep
RECURSIVE SplitFrom(_, _, _)
SplitFrom(s, sep, cur) ==
    IF s = <<>> THEN <<cur>>
    ELSE IF Head(s) = sep THEN <<cur>> \o SplitFrom(Tail(s), sep, <<>>)
    ELSE SplitFrom(Tail(s), sep, Append(cur, Head(s)))

Split(s, sep) == SplitFrom(s, sep, <<>>)

\* array[i] with a 0-based index: undefined past the end
At(arr, i) == IF i + 1 \in DOMAIN arr THEN arr[i + 1] ELSE UNDEFINED

\* ------------------------------------------------------------ environment
\* Files the user can pick ("E" is an empty file), and the base64 text of each
\* one's bytes.
Files == {"A", "E"}

Base64Of(f) == IF f = "A" THEN <<"QUFB">> ELSE <<>>

\* FileReader.readAsDataURL: "data:" type ";base64," payload
ReadAsDataURL(f) == <<"data:image/png;base64", ",">> \o Base64Of(f)

\* What the user can have typed into the prompt textarea.
ACat == <<"a", " ", "c", "a", "t">>

PromptTexts == { <<>>, <<" ">>, ACat }

\* A paragraph of 52 characters, longer than the excerpt kept in alt texts.
LongText == [i \in 1..52 |-> IF i <= 50 THEN "x" ELSE "y"]

\* What response.text of the text-generation endpoint can be: a string, or
\* undefined when the response carries no text part.
EnhancedTexts == { <<"X">>, ACat, LongText, UNDEFINED }

\* numberOfImages of the image-generation request
NumberOfImages == 3

\* One entry of response.generatedImages: with image bytes, or filtered out.
WithBytes == [image |-> [imageBytes |-> <<"/9j/">>]]
NoBytes == [raiFilteredReason |-> "filtered"]

RECURSIVE ListsUpTo(_)
ListsUpTo(n) ==
    IF n = 0 THEN { <<>> }
    ELSE LET shorter == ListsUpTo(n - 1)
         IN  shorter \cup { Append(l, e) : l \in { x \in shorter : Len(x) = n - 1 },
                                           e \in {WithBytes, NoBytes} }

\* Responses of the image-generation endpoint: generatedImages is a list of
\* at most numberOfImages entries, or is absent.
ImageResponses ==
    { [generatedImages |-> l] : l \in ListsUpTo(NumberOfImages) }
        \cup { [positivePromptSafetyAttributes |-> "none"] }

\* ------------------------------------------------------------ DOM content
Message(text) == [tag |-> "p", class |-> "message", text |-> text]

ThinkingMsg == Message("Thinking... Gemini is analyzing your idea.")
AnalyzedMsg == Message("Idea analyzed! Now generating images...")
ErrorMsg == Message("Error: Could not generate images. Check the console for details.")
NoImagesMsg ==
    Message("No images were generated. This could be due to the safety policy. Try a different prompt.")

ValidationAlert == "Please enter a prompt or upload an image."

PreviewImg(src) == [tag |-> "img", src |-> src]
RemoveBtn == [tag |-> "button", class |-> "remove-image-btn", text |-> "x"]

\* Text of the button in the page's markup, before the program sets it.
MarkupLabel == "<markup>"

VARIABLES
    uploadedImageBase64,    \* the module-level slot
    promptInput,            \* promptInput.value
    generateBtn,            \* [disabled, textContent]
    imageGallery,           \* children of the gallery, in order
    imageUploadInput,       \* the file chosen in the input, "" when reset
    imagePreviewContainer,  \* children of the preview container, in order
    readers,                \* files being read by a FileReader, in start order
    flows,                  \* activations of handleGeneration
    alert,                  \* text of the open alert box, "" when none
    ended,                  \* how the most recent flow ended (history)
    userChoice              \* the user's latest choice in the upload area:
                            \* a file, "removed", or "" before any (history)

vars == << uploadedImageBase64, promptInput, generateBtn, imageGallery,
           imageUploadInput, imagePreviewContainer, readers, flows, alert, ended,
           userChoice >>

uploadVars == << uploadedImageBase64, imageUploadInput, imagePreviewContainer, readers,
                 userChoice >>
flowVars == << generateBtn, imageGallery, flows, ended >>

FlowIds == 1..MaxFlows

IdleFlow == [pc |-> "idle"]
NotEnded == [outcome |-> "none"]

Init ==
    /\ uploadedImageBase64 = NULL
    /\ promptInput = <<>>
    /\ generateBtn = [disabled |-> FALSE, textContent |-> MarkupLabel]
    /\ imageGallery = <<>>
    /\ imageUploadInput = ""
    /\ imagePreviewContainer = <<>>
    /\ readers = <<>>
    /\ flows = [i \in FlowIds |-> IdleFlow]
    /\ alert = ""
    /\ ended = NotEnded
    /\ userChoice = ""

\* The main thread is free: no alert box is blocking it.
MainThreadFree == alert = ""

\* ---------------------------------------------------------- upload handler
\* result.split(',')[1]: the base64 part of a data URL
StoredEncoding(result) == At(Split(result, ","), 1)

\* The 'change' listener of the file input.  file is target.files[0], "" when
\* the list of files is empty.  The browser fires 'change' only when the
\* selection changes.
handleImageUpload(file) ==
    /\ MainThreadFree
    /\ file # imageUploadInput
    /\ imageUploadInput' = file
    /\ IF file # ""
       THEN /\ Len(readers) < MaxPending
            /\ readers' = Append(readers, file)
            /\ userChoice' = file
       ELSE UNCHANGED << readers, userChoice >>
    /\ UNCHANGED << uploadedImageBase64, imagePreviewContainer, promptInput,
                    alert, flowVars >>

\* What reader.onloadend leaves in the preview container.
PreviewOf(result) == << PreviewImg(result), RemoveBtn >>

\* reader.onloadend of the k-th reader still reading.  result is reader.result:
\* the data URL of the file, or null when the read failed, and then
\* result.split throws before anything is assigned.
onloadend(k, result) ==
    /\ MainThreadFree
    /\ k \in DOMAIN readers
    /\ result \in { ReadAsDataURL(readers[k]), NULL }
    /\ readers' = SubSeq(readers, 1, k - 1) \o SubSeq(readers, k + 1, Len(readers))
    /\ IF result = NULL
       THEN UNCHANGED << uploadedImageBase64, imagePreviewContainer >>
       ELSE /\ uploadedImageBase64' = StoredEncoding(result)
            /\ imagePreviewContainer' = PreviewOf(result)
    /\ UNCHANGED << imageUploadInput, userChoice, promptInput, alert, flowVars >>

\* A removal that empties the preview and forgets the slot.
removeBtnOnclick_PreviewOnly ==
    /\ MainThreadFree
    /\ \E k \in DOMAIN imagePreviewContainer : imagePreviewContainer[k] = RemoveBtn
    /\ imagePreviewContainer' = <<>>
    /\ imageUploadInput' = ""
    /\ userChoice' = "removed"
    /\ UNCHANGED << uploadedImageBase64, readers, promptInput, alert, flowVars >>

\* removeBtn.onclick: the button exists while the preview holds it.
removeBtnOnclick ==
    /\ MainThreadFree
    /\ \E k \in DOMAIN imagePreviewContainer : imagePreviewContainer[k] = RemoveBtn
    /\ imagePreviewContainer' = <<>>
    /\ uploadedImageBase64' = NULL
    /\ imageUploadInput' = ""
    /\ userChoice' = "removed"
    /\ UNCHANGED << readers, promptInput, alert, flowVars >>

\* The user edits the prompt textarea.
InputPrompt(text) ==
    /\ MainThreadFree
    /\ text # promptInput
    /\ promptInput' = text
    /\ UNCHANGED << uploadVars, alert, flowVars >>

\* The user closes the alert box; alert() returns and handleGeneration returns.
DismissAlert ==
    /\ alert # ""
    /\ alert' = ""
    /\ UNCHANGED << uploadVars, promptInput, flowVars >>

\* ------------------------------------------------------------- generation
DefaultMessage == "Generate Images"

\* A setLoadingState that never disables the button.
setLoadingState_NeverDisables(isLoading, message) ==
    [disabled |-> FALSE,
     textContent |-> IF isLoading THEN message ELSE "Generate Images"]

\* A setLoadingState that ignores its message.
setLoadingState_FixedLabel(isLoading, message) ==
    [disabled |-> isLoading, textContent |-> "Generate Images"]

setLoadingState(isLoading, message) ==
    [disabled |-> isLoading,
     textContent |-> IF isLoading THEN message ELSE "Generate Images"]

\* A validation that forgets to trim the prompt.
InputMissing_NoTrim(textPrompt, image) == ~Truthy(textPrompt) /\ ~Truthy(image)

\* A validation that takes any slot value but null for an image.
InputMissing_NullTest(textPrompt, image) == ~Truthy(Trim(textPrompt)) /\ image = NULL

\* The test of line 63: nothing to generate from.
InputMissing(textPrompt, image) == ~Truthy(Trim(textPrompt)) /\ ~Truthy(image)

SystemInstruction == "You are a world-class creative director. ..."

\* Parts built with the text first.
EnhanceParts_TextFirst(textPrompt, imageBase64) ==
    (IF Truthy(textPrompt) THEN << [text |-> textPrompt] >> ELSE <<>>)
    \o (IF Truthy(imageBase64)
        THEN << [inlineData |-> [mimeType |-> "image/jpeg", data |-> imageBase64]] >>
        ELSE <<>>)

\* The parts enhancePrompt builds: the image first, then the text.
EnhanceParts(textPrompt, imageBase64) ==
    (IF Truthy(imageBase64)
     THEN << [inlineData |-> [mimeType |-> "image/jpeg", data |-> imageBase64]] >>
     ELSE <<>>)
    \o (IF Truthy(textPrompt) THEN << [text |-> textPrompt] >> ELSE <<>>)

\* A request built without the image the validation saw.
EnhanceRequest_NoImage(textPrompt, imageBase64) ==
    [api |-> "generateContent",
     model |-> "gemini-2.5-flash",
     contents |-> [parts |-> EnhanceParts(textPrompt, NULL)],
     config |-> [systemInstruction |-> SystemInstruction]]

\* The request of ai.models.generateContent
EnhanceRequest(textPrompt, imageBase64) ==
    [api |-> "generateContent",
     model |-> "gemini-2.5-flash",
     contents |-> [parts |-> EnhanceParts(textPrompt, imageBase64)],
     config |-> [systemInstruction |-> SystemInstruction]]

\* The request of ai.models.generateImages
ImagesRequest(prompt) ==
    [api |-> "generateImages",
     model |-> "imagen-3.0-generate-002",
     prompt |-> prompt,
     config |-> [numberOfImages |-> NumberOfImages, aspectRatio |-> "1:1",
                 outputMimeType |-> "image/jpeg"]]

NoResponse == [none |-> TRUE]

Pending(request) == [request |-> request, state |-> "pending", result |-> NoResponse]

\* The last call of a flow settles: it resolves with result, or rejects.
Settle(calls, state, result) ==
    [calls EXCEPT ![Len(calls)] = [request |-> @.request, state |-> state, result |-> result]]

\* generateImages given the user's text instead of the enhanced prompt.
CallGenerateImages_Raw(textPrompt, enhancedPrompt) == Pending(ImagesRequest(textPrompt))

\* The call of line 83: generateImages is given the enhanced prompt.
CallGenerateImages(textPrompt, enhancedPrompt) == Pending(ImagesRequest(enhancedPrompt))

\* The activation a click starts: the first one not in use.
FreeFlow(i) ==
    /\ flows[i].pc = "idle"
    /\ \A j \in FlowIds : j < i => flows[j].pc # "idle"

\* The 'click' listener of generateBtn, up to the await of generateContent.  A
\* disabled button receives no click.
handleGeneration(i) ==
    /\ MainThreadFree
    /\ ~generateBtn.disabled
    /\ FreeFlow(i)
    /\ LET textPrompt == promptInput
       IN  IF InputMissing(textPrompt, uploadedImageBase64)
           THEN /\ alert' = ValidationAlert
                /\ UNCHANGED flowVars
           ELSE /\ generateBtn' = setLoadingState(TRUE, "Analyzing your idea...")
                /\ imageGallery' = << ThinkingMsg >>
                /\ flows' = [flows EXCEPT ![i] =
                       [pc |-> "enhancing",
                        textPrompt |-> textPrompt,
                        calls |-> << Pending(EnhanceRequest(textPrompt, uploadedImageBase64)) >>]]
                /\ ended' = NotEnded
                /\ UNCHANGED alert
    /\ UNCHANGED << uploadVars, promptInput >>

\* A catch block that adds the error message to what the gallery shows.
CatchBlock_Appends == imageGallery' = Append(imageGallery, ErrorMsg)

\* The catch block of handleGeneration.
CatchBlock == imageGallery' = << ErrorMsg >>

\* A cleanup that leaves the button as it is.
FinallyBlock_Skipped == UNCHANGED generateBtn

\* The finally block of handleGeneration.
FinallyBlock == generateBtn' = setLoadingState(FALSE, DefaultMessage)

\* handleGeneration returns: the activation is over.  ended records how.
EndFlow(i, outcome, state, response) ==
    /\ ended' = [outcome |-> outcome,
                 flow |-> [flows[i] EXCEPT !.calls = Settle(@, state, response)],
                 response |-> response]
    /\ flows' = [flows EXCEPT ![i] = IdleFlow]

\* generateContent resolves with response.text = text: enhancePrompt returns
\* it, and handleGeneration runs on to the await of generateImages.
EnhanceResolved(i, text) ==
    /\ MainThreadFree
    /\ flows[i].pc = "enhancing"
    /\ generateBtn' = setLoadingState(TRUE, "Generating...")
    /\ imageGallery' = << AnalyzedMsg >>
    /\ flows' = [flows EXCEPT ![i] =
           [pc |-> "generating",
            textPrompt |-> flows[i].textPrompt,
            enhancedPrompt |-> text,
            calls |-> Append(Settle(flows[i].calls, "resolved", [text |-> text]),
                             CallGenerateImages(flows[i].textPrompt, text))]]
    /\ UNCHANGED << uploadVars, promptInput, alert, ended >>

\* A handler that calls generateContent again when it rejects.
EnhanceRejected_Retries(i) ==
    /\ MainThreadFree
    /\ flows[i].pc = "enhancing"
    /\ Len(flows[i].calls) < 3
    /\ flows' = [flows EXCEPT ![i].calls =
           Append(Settle(@, "rejected", NoResponse), Pending(flows[i].calls[1].request))]
    /\ UNCHANGED << uploadVars, promptInput, alert, generateBtn, imageGallery, ended >>

\* generateContent rejects.
EnhanceRejected(i) ==
    /\ MainThreadFree
    /\ flows[i].pc = "enhancing"
    /\ CatchBlock
    /\ FinallyBlock
    /\ EndFlow(i, "enhanceRejected", "rejected", NoResponse)
    /\ UNCHANGED << uploadVars, promptInput, alert >>

\* The characters `... - Image ` of the alt text.
AltSuffix == << ".", ".", ".", " ", "-", " ", "I", "m", "a", "g", "e", " " >>

\* Characters of the prompt kept in an alt text.
AltExcerpt == 50

\* An alt text numbered from 0.
AltText_ZeroBased(prompt, index) ==
    Substring(prompt, 0, AltExcerpt) \o AltSuffix \o << ToString(index) >>

\* `${prompt.substring(0, 50)}... - Image ${Number(index) + 1}`, index 0-based
AltText(prompt, index) ==
    Substring(prompt, 0, AltExcerpt) \o AltSuffix \o << ToString(index + 1) >>

GalleryImg(bytes, alt) ==
    [tag |-> "img", src |-> << "data:image/jpeg;base64," >> \o bytes, alt |-> alt]

\* generatedImage.image?.imageBytes is truthy
HasBytes(entry) == "image" \in DOMAIN entry /\ Truthy(entry.image.imageBytes)

\* A rendering that drops the entries without image data first and numbers
\* what is left.
AppendedFrom_Renumbered(images, k, prompt) ==
    LET kept == SelectSeq(images, HasBytes)
    IN  [j \in 1..Len(kept) |-> GalleryImg(kept[j].image.imageBytes, AltText(prompt, j - 1))]

\* The elements the forEach of generateImages appends for the entries from
\* the k-th on (k is 1-based, the callback's index is k - 1).
RECURSIVE AppendedFrom(_, _, _)
AppendedFrom(images, k, prompt) ==
    IF k > Len(images) THEN <<>>
    ELSE (IF HasBytes(images[k])
          THEN << GalleryImg(images[k].image.imageBytes, AltText(prompt, k - 1)) >>
          ELSE <<>>)
         \o AppendedFrom(images, k + 1, prompt)

\* prompt.substring throws a TypeError when prompt is not a string; the
\* forEach reaches it at the first entry with image bytes.
RenderThrows(prompt, response) ==
    /\ "generatedImages" \in DOMAIN response
    /\ prompt \in {NULL, UNDEFINED}
    /\ \E k \in DOMAIN response.generatedImages : HasBytes(response.generatedImages[k])

\* A rendering without the test for an empty list.
Rendered_NoEmptyTest(gallery, prompt, response) ==
    IF "generatedImages" \in DOMAIN response
    THEN AppendedFrom(response.generatedImages, 1, prompt)
    ELSE gallery

\* Lines 139-153: the gallery after generateImages has rendered response,
\* when nothing throws.
Rendered(gallery, prompt, response) ==
    IF "generatedImages" \in DOMAIN response
    THEN (IF Len(response.generatedImages) = 0 THEN << NoImagesMsg >> ELSE <<>>)
         \o AppendedFrom(response.generatedImages, 1, prompt)
    ELSE gallery

\* What the image-generation endpoint can answer to a request with this
\* prompt: it has no image to return for a request that carries no prompt
\* (response.text of the enhancement was absent).
ResponsesTo(prompt) ==
    IF prompt \in {NULL, UNDEFINED}
    THEN { r \in ImageResponses :
             "generatedImages" \in DOMAIN r
                => \A k \in DOMAIN r.generatedImages : ~HasBytes(r.generatedImages[k]) }
    ELSE ImageResponses

\* generateImages resolves with response: the rest of generateImages runs, then
\* the finally block (after the catch block, when the rendering throws).
ImagesResolved(i, response) ==
    /\ MainThreadFree
    /\ flows[i].pc = "generating"
    /\ response \in ResponsesTo(flows[i].enhancedPrompt)
    /\ IF RenderThrows(flows[i].enhancedPrompt, response)
       THEN /\ CatchBlock
            /\ EndFlow(i, "renderThrew", "resolved", response)
       ELSE /\ imageGallery' = Rendered(imageGallery, flows[i].enhancedPrompt, response)
            /\ EndFlow(i, "completed", "resolved", response)
    /\ FinallyBlock
    /\ UNCHANGED << uploadVars, promptInput, alert >>

\* generateImages rejects.
ImagesRejected(i) ==
    /\ MainThreadFree
    /\ flows[i].pc = "generating"
    /\ CatchBlock
    /\ FinallyBlock
    /\ EndFlow(i, "imagesRejected", "rejected", NoResponse)
    /\ UNCHANGED << uploadVars, promptInput, alert >>

\* ---------------------------------------------------------- specification
Next ==
    \/ \E file \in Files \cup {""} : handleImageUpload(file)
    \/ \E k \in 1..MaxPending, result \in { ReadAsDataURL(f) : f \in Files } \cup {NULL} :
          onloadend(k, result)
    \/ removeBtnOnclick
    \/ \E text \in PromptTexts : InputPrompt(text)
    \/ DismissAlert
    \/ \E i \in FlowIds : handleGeneration(i)
    \/ \E i \in FlowIds, text \in EnhancedTexts : EnhanceResolved(i, text)
    \/ \E i \in FlowIds : EnhanceRejected(i)
    \/ \E i \in FlowIds, response \in ImageResponses : ImagesResolved(i, response)
    \/ \E i \in FlowIds : ImagesRejected(i)

Spec == Init /\ [][Next]_vars

\* The remote call activation i awaits settles: its promise resolves or
\* rejects and the continuation of handleGeneration runs.
RemoteSettles(i) ==
    \/ \E text \in EnhancedTexts : EnhanceResolved(i, text)
    \/ EnhanceRejected(i)
    \/ \E response \in ImageResponses : ImagesResolved(i, response)
    \/ ImagesRejected(i)

\* Every remote call issued eventually resolves or rejects.
FairSpec == Spec /\ \A i \in FlowIds : WF_vars(RemoteSettles(i))

\* The steps of the program when no file read fails: every reader.onloadend
\* finds the data URL of its file in reader.result.
NextReadsSucceed ==
    \/ \E file \in Files \cup {""} : handleImageUpload(file)
    \/ \E k \in 1..MaxPending, result \in { ReadAsDataURL(f) : f \in Files } :
          onloadend(k, result)
    \/ removeBtnOnclick
    \/ \E text \in PromptTexts : InputPrompt(text)
    \/ DismissAlert
    \/ \E i \in FlowIds : handleGeneration(i)
    \/ \E i \in FlowIds, text \in EnhancedTexts : EnhanceResolved(i, text)
    \/ \E i \in FlowIds : EnhanceRejected(i)
    \/ \E i \in FlowIds, response \in ImageResponses : ImagesResolved(i, response)
    \/ \E i \in FlowIds : ImagesRejected(i)

SpecReadsSucceed == Init /\ [][NextReadsSucceed]_vars

\* ------------------------------------------------------------------ claims
\* The activations of handleGeneration that are suspended at an await.
ActiveFlows == { i \in FlowIds : flows[i].pc # "idle" }

\* The remote calls outstanding.
OutstandingCalls ==
    { <<i, k>> \in FlowIds \X (1..4) :
        /\ i \in ActiveFlows
        /\ k \in DOMAIN flows[i].calls
        /\ flows[i].calls[k].state = "pending" }

\* The flows to speak of: those suspended, and the one that ended last.
FlowRecords ==
    { flows[i] : i \in ActiveFlows }
        \cup (IF ended.outcome = "none" THEN {} ELSE { ended.flow })

\* C1: a click on the trigger while the prompt is empty after trimming and the
\* slot holds no encoding shows the validation alert and issues no remote
\* call: no activation is started and no call is added.
C1_EmptyInputAlertsAndCallsNothing ==
    [][ \A i \in FlowIds :
          ( /\ handleGeneration(i)
            /\ Trim(promptInput) = <<>>
            /\ ~Truthy(uploadedImageBase64) )
          => ( /\ alert' = ValidationAlert
               /\ flows' = flows
               /\ OutstandingCalls' = OutstandingCalls ) ]_vars

\* The alert is open over a prompt of white space only and an empty slot, and
\* nothing is in flight.
C1_Witness ==
    /\ alert = ValidationAlert
    /\ promptInput = << " " >>
    /\ uploadedImageBase64 = NULL
    /\ OutstandingCalls = {}

\* C2: in a flow whose enhancement call resolved, the image-generation call
\* carries exactly the string the enhancement call returned, and so not the
\* user's text when the two differ.
C2_ImagesCalledWithEnhancedPrompt ==
    \A f \in FlowRecords :
        (Len(f.calls) >= 2 /\ f.calls[1].state = "resolved")
        => /\ f.calls[2].request.api = "generateImages"
           /\ f.calls[2].request.prompt = f.calls[1].result.text
           /\ (f.calls[1].result.text # f.textPrompt
                 => f.calls[2].request.prompt # f.textPrompt)

\* The user wrote "a cat", the enhancement returned "X", and the image call
\* in flight carries "X".
C2_Witness ==
    \E i \in ActiveFlows :
        /\ flows[i].pc = "generating"
        /\ flows[i].textPrompt = ACat
        /\ flows[i].calls[1].result.text = << "X" >>
        /\ flows[i].calls[2].request.prompt = << "X" >>
        /\ flows[i].calls[2].state = "pending"

\* C3: in every flow the first call is the one enhancement call; an
\* image-generation call exists only once the enhancement call has resolved,
\* so never after it rejected; and no endpoint is called twice.
C3_SequentialSingleAttempt ==
    \A f \in FlowRecords :
        /\ Len(f.calls) \in {1, 2}
        /\ f.calls[1].request.api = "generateContent"
        /\ Len(f.calls) = 2
             => /\ f.calls[2].request.api = "generateImages"
                /\ f.calls[1].state = "resolved"
        /\ f.calls[1].state = "rejected" => Len(f.calls) = 1

\* A flow ended by the rejection of its enhancement call, with that one call.
C3_Witness ==
    /\ ended.outcome = "enhanceRejected"
    /\ Len(ended.flow.calls) = 1
    /\ ended.flow.calls[1].state = "rejected"

\* C4: once a flow has ended because one of its remote calls rejected, the
\* gallery holds the generic error message and nothing else, and the button
\* is enabled.
C4_FailureShowsOneErrorAndReenables ==
    ended.outcome \in {"enhanceRejected", "imagesRejected"}
    => /\ imageGallery = << ErrorMsg >>
       /\ ~generateBtn.disabled

\* The image-generation call of a flow rejected.
C4_Witness ==
    /\ ended.outcome = "imagesRejected"
    /\ imageGallery = << ErrorMsg >>
    /\ ~generateBtn.disabled

\* C5: when every remote call settles, a flow that disabled the button is
\* followed by a state in which no flow is left and the button is enabled.
C5_ButtonEventuallyReenabled ==
    (ActiveFlows # {} /\ generateBtn.disabled)
        ~> (ActiveFlows = {} /\ ~generateBtn.disabled)

\* A flow whose enhancement returned no text and whose image-generation call
\* then rejected has ended with the button enabled.
C5_Witness ==
    /\ ended.outcome = "imagesRejected"
    /\ ended.flow.enhancedPrompt = UNDEFINED
    /\ ActiveFlows = {}
    /\ ~generateBtn.disabled

\* C6: at most one flow is suspended, at most one remote call is outstanding,
\* and the button is disabled as long as a flow is suspended.
C6_OneFlowOneCall ==
    /\ Cardinality(ActiveFlows) <= 1
    /\ Cardinality(OutstandingCalls) <= 1
    /\ ActiveFlows # {} => generateBtn.disabled

\* One flow awaits its enhancement call behind a disabled button while the
\* prompt field already holds other text.
C6_Witness ==
    /\ ActiveFlows = {1}
    /\ flows[1].pc = "enhancing"
    /\ Cardinality(OutstandingCalls) = 1
    /\ generateBtn.disabled
    /\ promptInput # flows[1].textPrompt

\* C7: once a flow has ended whose image-generation call resolved with an
\* empty list, the gallery holds the "no images" message and nothing else.
C7_EmptyResultShowsNoImagesMessage ==
    ( /\ ended.outcome \in {"completed", "renderThrew"}
      /\ "generatedImages" \in DOMAIN ended.response
      /\ Len(ended.response.generatedImages) = 0 )
    => imageGallery = << NoImagesMsg >>

\* A flow has ended on an empty list of results.
C7_Witness ==
    /\ ended.outcome = "completed"
    /\ "generatedImages" \in DOMAIN ended.response
    /\ ended.response.generatedImages = <<>>
    /\ imageGallery = << NoImagesMsg >>

\* C8: a completed read of a file puts that file in the preview and its
\* encoding in the slot; the removal empties the preview, empties the slot
\* and resets the input; and while the removal is the user's latest choice in
\* the upload area (no file selected since) the slot stays empty.
C8_UploadPopulatesRemovalClears ==
    [][ /\ \A k \in 1..MaxPending, f \in Files :
              onloadend(k, ReadAsDataURL(f))
              => /\ uploadedImageBase64' = Base64Of(f)
                 /\ imagePreviewContainer' = << PreviewImg(ReadAsDataURL(f)), RemoveBtn >>
        /\ removeBtnOnclick
              => /\ imagePreviewContainer' = <<>>
                 /\ ~Truthy(uploadedImageBase64')
                 /\ imageUploadInput' = ""
        /\ (userChoice = "removed" /\ userChoice' = "removed")
              => ~Truthy(uploadedImageBase64') ]_vars

\* The first two parts of C8 alone: what a completed read and a removal do.
C8_ReadAndRemovalEffects ==
    [][ /\ \A k \in 1..MaxPending, f \in Files :
              onloadend(k, ReadAsDataURL(f))
              => /\ uploadedImageBase64' = Base64Of(f)
                 /\ imagePreviewContainer' = << PreviewImg(ReadAsDataURL(f)), RemoveBtn >>
        /\ removeBtnOnclick
              => /\ imagePreviewContainer' = <<>>
                 /\ ~Truthy(uploadedImageBase64')
                 /\ imageUploadInput' = "" ]_vars

\* The alt text the claims speak of: the first 50 characters of text, then
\* "... - Image " and the number i.
Excerpt(text) == [j \in 1..(IF Len(text) < 50 THEN Len(text) ELSE 50) |-> text[j]]
ImageLabel(i) ==
    << ".", ".", ".", " ", "-", " ", "I", "m", "a", "g", "e", " ", ToString(i) >>

\* The image elements of the gallery, in order.
GalleryImages == SelectSeq(imageGallery, LAMBDA el : el.tag = "img")

\* C9 as stated: after a successful flow the i-th image of the gallery has the
\* alt text made of the first 50 characters of the user's prompt text and
\* "... - Image i".
C9_AltFromUserPrompt ==
    ended.outcome = "completed"
    => \A i \in DOMAIN GalleryImages :
           GalleryImages[i].alt = Excerpt(ended.flow.textPrompt) \o ImageLabel(i)

\* C9 amended: after a successful flow the gallery has one image for each
\* returned entry with image data, and the image of the entry at position i
\* (1-based) has the alt text made of the first 50 characters of the enhanced
\* prompt, the string the enhancement call returned, and "... - Image i".
C9_AltFromEnhancedPrompt ==
    (ended.outcome = "completed" /\ "generatedImages" \in DOMAIN ended.response)
    => LET images == ended.response.generatedImages
           withData == { k \in DOMAIN images : HasBytes(images[k]) }
           prompt == ended.flow.calls[1].result.text
       IN  /\ Len(GalleryImages) = Cardinality(withData)
           /\ \A k \in withData :
                  \E j \in DOMAIN GalleryImages :
                      GalleryImages[j].alt = Excerpt(prompt) \o ImageLabel(k)
           /\ \A j \in DOMAIN GalleryImages :
                  \E k \in withData :
                      GalleryImages[j].alt = Excerpt(prompt) \o ImageLabel(k)

\* The user wrote "a cat", the enhancement returned "X", three images came
\* back: their alt texts are "X... - Image 1", "X... - Image 2", "X... - Image 3".
C9_Witness ==
    /\ ended.outcome = "completed"
    /\ ended.flow.textPrompt = ACat
    /\ ended.flow.calls[1].result.text = << "X" >>
    /\ Len(imageGallery) = 3
    /\ \A i \in 1..3 :
           /\ imageGallery[i].tag = "img"
           /\ imageGallery[i].alt =
                  << "X", ".", ".", ".", " ", "-", " ", "I", "m", "a", "g", "e", " ", ToString(i) >>

\* C10: the button is disabled exactly while a flow awaits one of its two
\* calls, labelled "Analyzing your idea..." during the first and
\* "Generating..." during the second; after a flow has ended it is enabled and
\* labelled "Generate Images"; and it is enabled while the validation alert of
\* a rejected click is open.
C10_ButtonTracksFlow ==
    /\ generateBtn.disabled <=> ActiveFlows # {}
    /\ \A i \in ActiveFlows :
           /\ flows[i].pc = "enhancing" => generateBtn.textContent = "Analyzing your idea..."
           /\ flows[i].pc = "generating" => generateBtn.textContent = "Generating..."
    /\ (ActiveFlows = {} /\ ended.outcome # "none")
           => generateBtn.textContent = "Generate Images"
    /\ alert # "" => ~generateBtn.disabled

\* A flow awaits its image-generation call behind the disabled button
\* labelled "Generating...".
C10_Witness ==
    /\ \E i \in ActiveFlows : flows[i].pc = "generating"
    /\ generateBtn = [disabled |-> TRUE, textContent |-> "Generating..."]

\* C11: when no read is pending (and none failed), the slot and the preview
\* reflect the user's latest choice in the upload area: the encoding and the
\* picture of the file selected last, or nothing when the removal came last.
C11_SlotReflectsLatestChoice ==
    readers = <<>>
    => /\ userChoice \in Files
            => /\ uploadedImageBase64 = Base64Of(userChoice)
               /\ imagePreviewContainer = << PreviewImg(ReadAsDataURL(userChoice)), RemoveBtn >>
       /\ userChoice = "removed"
            => /\ ~Truthy(uploadedImageBase64)
               /\ imagePreviewContainer = <<>>

\* C12: the enhancement request a click issues has, in this order, the image
\* part (image/jpeg, the stored encoding) exactly when the slot holds an
\* encoding at the click, and the text part exactly when the prompt text is
\* not empty, carrying that text unchanged.
C12_PartsImageThenText ==
    [][ \A i \in FlowIds :
          (handleGeneration(i) /\ flows'[i].pc = "enhancing")
          => LET parts == flows'[i].calls[1].request.contents.parts
                 hasImage == Truthy(uploadedImageBase64)
                 hasText == promptInput # <<>>
                 imagePart == [inlineData |->
                                  [mimeType |-> "image/jpeg", data |-> uploadedImageBase64]]
                 textPart == [text |-> promptInput]
             IN  parts = CASE hasImage /\ hasText -> << imagePart, textPart >>
                           [] hasImage /\ ~hasText -> << imagePart >>
                           [] ~hasImage /\ hasText -> << textPart >>
                           [] OTHER -> <<>> ]_vars

\* An enhancement request in flight carries the image of file A, then "a cat".
C12_Witness ==
    \E i \in ActiveFlows :
        /\ flows[i].pc = "enhancing"
        /\ flows[i].calls[1].request.contents.parts =
               << [inlineData |-> [mimeType |-> "image/jpeg", data |-> << "QUFB" >>]],
                  [text |-> ACat] >>

\* The positions (1-based, ascending) of the entries that carry image data.
PositionsWithData(images) ==
    SelectSeq([k \in 1..Len(images) |-> k], LAMBDA k : HasBytes(images[k]))

C14_EndedFlowShowsFinalOutcome ==
    (ended.outcome # "none" /\ ActiveFlows = {} /\ ~generateBtn.disabled)
    => \/ Len(GalleryImages) >= 1
       \/ imageGallery = << NoImagesMsg >>
       \/ imageGallery = << ErrorMsg >>

\* C15: the enhancement request of every flow has at least one part.
C15_RequestHasAPart ==
    \A f \in FlowRecords :
        /\ f.calls[1].request.api = "generateContent"
        /\ Len(f.calls[1].request.contents.parts) >= 1

\* A flow started from an empty prompt and the image of file A: its request
\* has the image part alone.
C15_Witness ==
    \E i \in ActiveFlows :
        /\ flows[i].textPrompt = <<>>
        /\ Len(flows[i].calls[1].request.contents.parts) = 1
        /\ "inlineData" \in DOMAIN flows[i].calls[1].request.contents.parts[1]

\* The image encodings a request carries.
ImageDataOf(request) ==
    IF "contents" \in DOMAIN request
    THEN { request.contents.parts[k].inlineData.data :
             k \in { n \in DOMAIN request.contents.parts :
                       "inlineData" \in DOMAIN request.contents.parts[n] } }
    ELSE {}

\* C16: the enhancement request of a flow carries the slot value its click
\* found (the one validation tested); a request once issued never changes
\* while its flow is in flight, whatever read completes or removal happens;
\* and the image-generation request carries no image data.
C16_FlowUsesSlotAtTrigger ==
    [][ \A i \in FlowIds :
          /\ (handleGeneration(i) /\ flows'[i].pc = "enhancing")
                => ImageDataOf(flows'[i].calls[1].request) =
                       (IF Truthy(uploadedImageBase64) THEN {uploadedImageBase64} ELSE {})
          /\ (flows[i].pc # "idle" /\ flows'[i].pc # "idle")
                => \A k \in DOMAIN flows[i].calls :
                       flows'[i].calls[k].request = flows[i].calls[k].request
          /\ (flows[i].pc = "enhancing" /\ flows'[i].pc = "generating")
                => ImageDataOf(flows'[i].calls[2].request) = {} ]_vars

\* A flow still in flight sent the image of file A; the user has removed the
\* image since, and the slot is empty.
C16_Witness ==
    \E i \in ActiveFlows :
        /\ ImageDataOf(flows[i].calls[1].request) = { << "QUFB" >> }
        /\ userChoice = "removed"
        /\ uploadedImageBase64 = NULL

\* C17: the preview and the slot agree in every state: the preview is empty
\* exactly when the slot is null, and otherwise it shows the picture of one
\* file, with the removal button, and the slot holds the base64 text of that
\* same file.
C17_PreviewAgreesWithSlot ==
    /\ (imagePreviewContainer # <<>>) <=> (uploadedImageBase64 # NULL)
    /\ imagePreviewContainer # <<>>
         => \E f \in Files :
                /\ imagePreviewContainer = << PreviewImg(ReadAsDataURL(f)), RemoveBtn >>
                /\ uploadedImageBase64 = Base64Of(f)

\* After two overlapping reads the preview shows file A and the slot holds
\* A's encoding, although file E was selected last.
C17_Witness ==
    /\ readers = <<>>
    /\ userChoice = "E"
    /\ imagePreviewContainer = << PreviewImg(ReadAsDataURL("A")), RemoveBtn >>
    /\ uploadedImageBase64 = << "QUFB" >>

====
